---- MODULE Spec2Model ----
(***************************************************************************)
(* Data Integrity Dashboard (src/app.py).                                  *)
(*                                                                         *)
(* The program is one Dash callback, update_visualizations, that turns the *)
(* uploaded files into one pandas DataFrame and hands it to                *)
(* calculate_metrics.  The file holds two copies of both functions         *)
(* (lines 18-207 and 229-343); their ingestion and metric code is the      *)
(* same, so one model covers both.                                         *)
(*                                                                         *)
(* Representation.                                                         *)
(*   cell        <<>> is NaN/None, <<v>> is the value v                     *)
(*   DataFrame   [columns : set of names, rows : sequence of functions     *)
(*               columns -> cell]                                          *)
(*   percentage  an integer number of hundredths (75.0 is 7500), which is  *)
(*               exactly what round(x, 2) can return                       *)
(*   filename    a sequence of one-character strings                       *)
(***************************************************************************)
EXTENDS Integers, Sequences, FiniteSets, TLC

VARIABLES
    contents,     \* Input("file-upload", "contents") zipped with the filenames
    all_data,     \* local all_data of the latest invocation
    combined_df,  \* local combined_df of the latest invocation
    metrics,      \* <<>> when the invocation computed none, else <<metrics dict>>
    status,       \* fourth value returned ("" when nothing was returned)
    raised,       \* the latest invocation ended in an exception
    earlier       \* observer: inputs and results of one earlier invocation

vars == <<contents, all_data, combined_df, metrics, status, raised, earlier>>

-----------------------------------------------------------------------------
(* Bounds of the explored inputs. *)

MaxRows == 4

MaxRowsNoValid == 10

MaxFiles == 2

-----------------------------------------------------------------------------
(* pandas values *)

NaN == <<>>

Cell(v) == <<v>>

EmptyDataFrame == [columns |-> {}, rows |-> <<>>]

\* len(df)
len(df) == Len(df.rows)

RECURSIVE SumOver(_, _)
SumOver(f, S) ==
    IF S = {} THEN 0
    ELSE LET x == CHOOSE y \in S : TRUE
         IN  f[x] + SumOver(f, S \ {x})

\* df.notnull().sum() for one column
notnull_count(df, col) ==
    Cardinality({i \in 1..len(df) : df.rows[i][col] # NaN})

\* df.duplicated(keep=False).sum(): every row that has a twin
duplicated_sum_keep_false(df) ==
    Cardinality({i \in 1..len(df) :
                    \E j \in 1..len(df) : j # i /\ df.rows[j] = df.rows[i]})

\* df.duplicated().sum(): rows equal to a row above them (keep="first");
\* pandas compares NaN equal to NaN here.
duplicated_sum(df) ==
    Cardinality({i \in 1..len(df) : \E j \in 1..(i - 1) : df.rows[j] = df.rows[i]})

\* df[col].sum(): NaN cells are skipped, True is 1 and False is 0
RECURSIVE column_sum(_, _, _)
column_sum(df, col, i) ==
    IF i = 0 THEN 0
    ELSE column_sum(df, col, i - 1)
         + (IF df.rows[i][col] = NaN THEN 0 ELSE df.rows[i][col][1])

\* round(num / den, 2) in hundredths: nearest, ties to even (Python 3 round).
\* A tie needs a denominator divisible by 32, which no explored frame has, so
\* the double arithmetic of the code and this exact arithmetic agree.
round2(num, den) ==
    LET scaled == 100 * num
        q == scaled \div den
        r == scaled % den
    IN  IF 2 * r < den THEN q
        ELSE IF 2 * r > den THEN q + 1
        ELSE IF q % 2 = 0 THEN q ELSE q + 1

-----------------------------------------------------------------------------
(* calculate_metrics, lines 18-42 (and its copy, lines 229-247) *)

\* 0.6, 0.4 (line 30) and 0.9 (line 33), in tenths
CompletenessWeight == 6

ConsistencyWeight == 4

FallbackValidRatio == 9

\* line 21: the dict returned for an empty frame
zero_metrics_consistent ==
    [completeness |-> 0, consistency |-> 10000, overall_integrity |-> 4000,
     valid_records |-> 0, invalid_records |-> 0]

zero_metrics ==
    [completeness |-> 0, consistency |-> 0, overall_integrity |-> 0,
     valid_records |-> 0, invalid_records |-> 0]

\* line 24: df.notnull().mean().mean() * 100, as the fraction num / den.
\* notnull().mean() is each column's non-null rate; the outer mean averages
\* the rates over the columns.  Every frame with a row has a column (the
\* parsers yield no row without one), so den is positive.
completeness_rows(df) ==
    [num |-> 100 * Cardinality({i \in 1..len(df) :
                                \A c \in df.columns : df.rows[i][c] # NaN}),
     den |-> len(df)]

completeness(df) ==
    LET rate_num == [c \in df.columns |-> notnull_count(df, c)]
    IN  [num |-> 100 * SumOver(rate_num, df.columns),
         den |-> len(df) * Cardinality(df.columns)]

\* line 27: 100 - (df.duplicated().sum() / total_records * 100)
consistency(df) ==
    [num |-> 100 * (len(df) - duplicated_sum(df)), den |-> len(df)]

\* line 30: 0.6 * completeness + 0.4 * consistency
overall_integrity(df) ==
    LET c == completeness(df)
        k == consistency(df)
    IN  [num |-> CompletenessWeight * c.num * k.den + ConsistencyWeight * k.num * c.den,
         den |-> 10 * c.den * k.den]

\* line 33, else branch: int(0.9 * total_records).  int() truncates; the
\* double product 0.9 * n is never below the integer 9n/10 rounds down to, so
\* the result is the integer quotient of 9n by 10.
fallback_valid_rounded(total_records) ==
    (FallbackValidRatio * total_records + 5) \div 10

fallback_valid(total_records) ==
    (FallbackValidRatio * total_records) \div 10

\* line 33
valid_records(df) ==
    IF "valid" \in df.columns
    THEN column_sum(df, "valid", len(df))
    ELSE fallback_valid(len(df))

\* line 34
invalid_records_estimated(df) == len(df) - fallback_valid(len(df))

invalid_records(df) == len(df) - valid_records(df)

calculate_metrics(df) ==
    IF len(df) = 0 THEN zero_metrics
    ELSE [completeness      |-> round2(completeness(df).num, completeness(df).den),
          consistency       |-> round2(consistency(df).num, consistency(df).den),
          overall_integrity |-> round2(overall_integrity(df).num,
                                       overall_integrity(df).den),
          valid_records     |-> valid_records(df),
          invalid_records   |-> invalid_records(df)]

-----------------------------------------------------------------------------
(* Ingestion, lines 129-149 (and its copy, lines 291-309) *)

\* str.endswith
endswith(name, suffix) ==
    /\ Len(name) >= Len(suffix)
    /\ SubSeq(name, Len(name) - Len(suffix) + 1, Len(name)) = suffix

csv_suffix == <<".", "c", "s", "v">>

xlsx_suffix == <<".", "x", "l", "s", "x">>

pdf_suffix == <<".", "p", "d", "f">>

\* An uploaded file: its name and what the parsing library makes of its
\* bytes.  parses = FALSE is a payload the library rejects with an exception;
\* table is what read_csv / read_excel return, pages the texts that
\* PdfReader(...).pages[k].extract_text() return.

\* lines 135 and 137: pd.read_csv(...) / pd.read_excel(...)
read_table(file) == file.table

\* lines 140-142: pd.DataFrame({"content": text_data})
pdf_frame(file) ==
    [columns |-> {"content"},
     rows    |-> [k \in 1..Len(file.pages) |-> [c \in {"content"} |-> Cell(file.pages[k])]]]

\* lines 134-144: the extension dispatch
recognized(file) ==
    \/ endswith(file.filename, csv_suffix)
    \/ endswith(file.filename, xlsx_suffix)
    \/ endswith(file.filename, pdf_suffix)

parse(file) ==
    IF endswith(file.filename, csv_suffix) THEN read_table(file)
    ELSE IF endswith(file.filename, xlsx_suffix) THEN read_table(file)
    ELSE pdf_frame(file)

\* lines 130-146: the loop over zip(contents, filenames), from file i on.
\* A file the library rejects ends the loop with the exception.
RECURSIVE ingest(_, _, _)
ingest(files, i, acc) ==
    IF i > Len(files) THEN [raised |-> FALSE, all_data |-> acc]
    ELSE IF ~recognized(files[i]) THEN ingest(files, i + 1, acc)
    ELSE IF ~files[i].parses THEN [raised |-> TRUE, all_data |-> acc]
    ELSE ingest(files, i + 1, Append(acc, parse(files[i])))

\* reindexing of one row to the columns of the result
reindex(row, columns) ==
    [c \in columns |-> IF c \in DOMAIN row THEN row[c] ELSE NaN]

RECURSIVE union_columns(_, _)
union_columns(frames, i) ==
    IF i = 0 THEN {} ELSE union_columns(frames, i - 1) \cup frames[i].columns

RECURSIVE stack_rows(_, _, _)
stack_rows(frames, i, columns) ==
    IF i = 0 THEN <<>>
    ELSE stack_rows(frames, i - 1, columns)
         \o [k \in 1..len(frames[i]) |-> reindex(frames[i].rows[k], columns)]

\* DataFrame.drop_duplicates() on the stacked rows
RECURSIVE drop_duplicates_to(_, _)
drop_duplicates_to(rows, i) ==
    IF i = 0 THEN <<>>
    ELSE IF \E j \in 1..(i - 1) : rows[j] = rows[i]
         THEN drop_duplicates_to(rows, i - 1)
         ELSE Append(drop_duplicates_to(rows, i - 1), rows[i])

drop_duplicates(rows) == drop_duplicates_to(rows, Len(rows))

\* pd.concat(frames, ignore_index=True).drop_duplicates()
concat_drop_duplicates(frames) ==
    LET columns == union_columns(frames, Len(frames))
    IN  [columns |-> columns,
         rows |-> drop_duplicates(stack_rows(frames, Len(frames), columns))]

\* pd.concat(frames, ignore_index=True): the rows of the frames in list order,
\* over the union of their columns (outer join), NaN where a frame lacks one
concat(frames) ==
    LET columns == union_columns(frames, Len(frames))
    IN  [columns |-> columns, rows |-> stack_rows(frames, Len(frames), columns)]

\* line 149
combine(frames) == IF frames # <<>> THEN concat(frames) ELSE EmptyDataFrame

-----------------------------------------------------------------------------
(* update_visualizations, lines 127-207 (and its copy, lines 287-343) *)

UploadPrompt == "Upload your files to see results."

Success == "Metrics successfully calculated."

\* contents is None
None == [none |-> TRUE, files |-> <<>>]

Uploaded(files) == [none |-> FALSE, files |-> files]

\* lines 128 / 288: contents is None
is_falsy(c) == c.none \/ c.files = <<>>

is_none(c) == c.none

\* line 129: all_data = []
all_data_kept == all_data

all_data_new == <<>>

\* the observer notes what is uploaded after the invocation it recorded
Watch(c) ==
    IF ~earlier.seen THEN earlier
    ELSE [earlier EXCEPT !.again = TRUE,
                         !.others = @ \/ (c # earlier.contents)]

\* lines 207 / 289: no upload yet
ReturnPrompt(c) ==
    /\ is_none(c)
    /\ contents' = c
    /\ all_data' = <<>>
    /\ combined_df' = EmptyDataFrame
    /\ metrics' = <<>>
    /\ status' = UploadPrompt
    /\ raised' = FALSE
    /\ earlier' = Watch(c)

\* a parsing library raises inside the loop; nothing is returned
RaiseInLoop(c) ==
    /\ ~is_none(c)
    /\ LET r == ingest(c.files, 1, all_data_new)
       IN  /\ r.raised
           /\ all_data' = r.all_data
    /\ contents' = c
    /\ combined_df' = EmptyDataFrame
    /\ metrics' = <<>>
    /\ status' = ""
    /\ raised' = TRUE
    /\ earlier' = Watch(c)

\* lines 129-205 / 291-343
ReturnMetrics(c) ==
    /\ ~is_none(c)
    /\ LET r == ingest(c.files, 1, all_data_new)
       IN  /\ ~r.raised
           /\ all_data' = r.all_data
           /\ combined_df' = combine(r.all_data)
           /\ metrics' = <<calculate_metrics(combine(r.all_data))>>
    /\ contents' = c
    /\ status' = Success
    /\ raised' = FALSE
    /\ earlier' = Watch(c)

update_visualizations(c) ==
    \/ ReturnPrompt(c)
    \/ RaiseInLoop(c)
    \/ ReturnMetrics(c)

-----------------------------------------------------------------------------
(* Inputs of the explored runs *)

Sheet(filename, columns, rows) ==
    [filename |-> filename, parses |-> TRUE,
     table |-> [columns |-> columns, rows |-> rows], pages |-> <<>>]

Document(filename, pages) ==
    [filename |-> filename, parses |-> TRUE, table |-> EmptyDataFrame, pages |-> pages]

Rejected(file) == [file EXCEPT !.parses = FALSE]

ab(a, b) == [c \in {"a", "b"} |-> IF c = "a" THEN a ELSE b]

bc(b, c) == [x \in {"b", "c"} |-> IF x = "b" THEN b ELSE c]

flag(x) == [c \in {"valid"} |-> x]

csv_ab == Sheet(<<"a">> \o csv_suffix, {"a", "b"}, <<ab(Cell(1), Cell(1)), ab(Cell(1), Cell(1))>>)

csv_null == Sheet(<<"n">> \o csv_suffix, {"a", "b"}, <<ab(NaN, Cell(2))>>)

csv_header == Sheet(<<"h">> \o csv_suffix, {"a", "b"}, <<>>)

csv_bad == Rejected(Sheet(<<"x">> \o csv_suffix, {}, <<>>))

xlsx_bc == Sheet(<<"s">> \o xlsx_suffix, {"b", "c"}, <<bc(Cell(1), Cell(2))>>)

xlsx_valid == Sheet(<<"v">> \o xlsx_suffix, {"valid"}, <<flag(Cell(2)), flag(Cell(0))>>)

pdf_pages == Document(<<"d">> \o pdf_suffix, <<"page one", "">>)

pdf_empty == Document(<<"e">> \o pdf_suffix, <<>>)

txt_file == Rejected(Sheet(<<"t", ".", "t", "x", "t">>, {}, <<>>))

upper_csv == Sheet(<<"u", ".", "C", "S", "V">>, {"a", "b"}, <<ab(Cell(1), Cell(2))>>)

Files ==
    {csv_ab, csv_null, csv_header, csv_bad, xlsx_bc, xlsx_valid,
     pdf_pages, pdf_empty, txt_file, upper_csv}

RepeatFiles == {csv_ab, csv_bad, xlsx_valid}

SeqsUpTo(S, n) == UNION {[1..k -> S] : k \in 0..n}

UploadEvents == {None} \cup {Uploaded(fs) : fs \in SeqsUpTo(Files, MaxFiles)}

RepeatEvents == {None} \cup {Uploaded(fs) : fs \in SeqsUpTo(RepeatFiles, MaxFiles)}

\* frames handed to calculate_metrics on its own
CellsOf(column) ==
    IF column = "valid" THEN {NaN, Cell(0), Cell(1), Cell(2)} ELSE {NaN, Cell(1)}

RowsOver(columns) ==
    {r \in [columns -> {NaN, Cell(0), Cell(1), Cell(2)}] :
        \A c \in columns : r[c] \in CellsOf(c)}

TablesOver(columns, n) ==
    {[columns |-> columns, rows |-> rs] : rs \in SeqsUpTo(RowsOver(columns), n)}

Tables ==
    {EmptyDataFrame}
    \cup TablesOver({"a", "valid"}, MaxRows)
    \cup TablesOver({"valid"}, MaxRows)
    \cup TablesOver({"a"}, MaxRowsNoValid)

-----------------------------------------------------------------------------
(* Specifications *)

NoEarlier ==
    [seen |-> FALSE, contents |-> None, metrics |-> <<>>, status |-> "", raised |-> FALSE,
     again |-> FALSE, others |-> FALSE]

\* the page is loaded and the callback has not run
Init ==
    /\ contents = None
    /\ all_data = <<>>
    /\ combined_df = EmptyDataFrame
    /\ metrics = <<>>
    /\ status = ""
    /\ raised = FALSE
    /\ earlier = NoEarlier

Upload == \E c \in UploadEvents : update_visualizations(c)

Next == Upload

Spec == Init /\ [][Next]_vars

\* the observer records one finished invocation for later comparison
Observe ==
    /\ ~earlier.seen
    /\ status # "" \/ raised
    /\ earlier' = [seen |-> TRUE, contents |-> contents, metrics |-> metrics,
                   status |-> status, raised |-> raised,
                   again |-> FALSE, others |-> FALSE]
    /\ UNCHANGED <<contents, all_data, combined_df, metrics, status, raised>>

UploadAgain == \E c \in RepeatEvents : update_visualizations(c)

NextRepeat == UploadAgain \/ Observe

SpecRepeat == Init /\ [][NextRepeat]_vars

\* calculate_metrics as a function of its frame
InitMetrics ==
    /\ contents = None
    /\ all_data = <<>>
    /\ combined_df \in Tables
    /\ metrics = <<>>
    /\ status = ""
    /\ raised = FALSE
    /\ earlier = NoEarlier

CalculateMetrics ==
    /\ metrics = <<>>
    /\ metrics' = <<calculate_metrics(combined_df)>>
    /\ UNCHANGED <<contents, all_data, combined_df, status, raised, earlier>>

SpecMetrics == InitMetrics /\ [][CalculateMetrics]_vars

-----------------------------------------------------------------------------
(* Properties *)

\* the result of the latest calculate_metrics call
result == metrics[1]

Computed == metrics # <<>>

total_rows == Len(combined_df.rows)

Abs(x) == IF x < 0 THEN -x ELSE x

\* p (in hundredths) is num / den rounded to two decimals
IsRoundedPercent(p, num, den) == 2 * Abs(p * den - 100 * num) <= den

\* C1: valid_records + invalid_records equals the number of rows of the
\* frame, with or without a valid column and for the empty frame.
C1_ValidPlusInvalidIsTotal ==
    Computed => result.valid_records + result.invalid_records = total_rows

C1_Witness ==
    /\ Computed
    /\ "valid" \in combined_df.columns
    /\ total_rows = 3
    /\ result.valid_records = 2
    /\ result.invalid_records = 1

\* C2: a frame without rows gives exactly the all-zero result, and an upload
\* in which no file has a recognized extension builds the empty frame and
\* returns that result without an exception.
AllZero(m) ==
    /\ m.completeness = 0
    /\ m.consistency = 0
    /\ m.overall_integrity = 0
    /\ m.valid_records = 0
    /\ m.invalid_records = 0

HasKnownExtension(file) ==
    LET n == Len(file.filename)
        tail(k) == IF n >= k THEN SubSeq(file.filename, n - k + 1, n) ELSE <<>>
    IN  \/ tail(4) = <<".", "c", "s", "v">>
        \/ tail(5) = <<".", "x", "l", "s", "x">>
        \/ tail(4) = <<".", "p", "d", "f">>

NothingIngestible ==
    /\ ~contents.none
    /\ \A i \in 1..Len(contents.files) : ~HasKnownExtension(contents.files[i])

C2_EmptyTableZeroMetrics ==
    /\ (Computed /\ total_rows = 0) => AllZero(result)
    /\ (NothingIngestible /\ (status # "" \/ raised)) =>
           /\ ~raised
           /\ Computed
           /\ combined_df = EmptyDataFrame
           /\ AllZero(result)

C2_Witness ==
    /\ NothingIngestible
    /\ Len(contents.files) = 2
    /\ Computed
    /\ combined_df = EmptyDataFrame
    /\ AllZero(result)

\* C3: with a valid column, valid_records is the number of rows whose valid
\* cell is non-zero/true, whatever values the column holds.
NonZeroValidCells ==
    Cardinality({i \in 1..total_rows :
                    /\ combined_df.rows[i]["valid"] # NaN
                    /\ combined_df.rows[i]["valid"] # Cell(0)})

C3_ValidCountsNonZeroCells ==
    (Computed /\ "valid" \in combined_df.columns /\ total_rows > 0) =>
        result.valid_records = NonZeroValidCells

\* C4 (as stated): without a valid column, valid_records is 0.9 * total_rows
\* rounded to the nearest integer, for every row count n >= 1.
NoValidColumn == Computed /\ "valid" \notin combined_df.columns /\ total_rows >= 1

C4_FallbackIsRounded ==
    NoValidColumn => 2 * Abs(10 * result.valid_records - 9 * total_rows) <= 10

\* C4 (amended): without a valid column, valid_records is 0.9 * total_rows
\* truncated to an integer (the largest integer not above 0.9 * n); n = 10
\* gives 9.
C4_FallbackIsTruncated ==
    NoValidColumn =>
        /\ 10 * result.valid_records <= 9 * total_rows
        /\ 9 * total_rows < 10 * (result.valid_records + 1)
        /\ (total_rows = 10 => result.valid_records = 9)

C4_Witness ==
    /\ NoValidColumn
    /\ total_rows = 7
    /\ result.valid_records = 6
    /\ result.invalid_records = 1

\* rows that repeat an earlier row: k identical rows contribute k - 1
RepeatedRows ==
    total_rows - Cardinality({combined_df.rows[i] : i \in 1..total_rows})

\* C5 (as stated): consistency equals 100 - 100 * d / total_rows exactly.
C5_ConsistencyExact ==
    (Computed /\ total_rows >= 1) =>
        result.consistency * total_rows = 10000 * (total_rows - RepeatedRows)

\* C5 (amended): consistency equals 100 - 100 * d / total_rows rounded to two
\* decimals; no repeated row gives 100, and four rows of which only rows 2
\* and 4 are identical give 75.
C5_ConsistencyRounded ==
    (Computed /\ total_rows >= 1) =>
        /\ IsRoundedPercent(result.consistency, 100 * (total_rows - RepeatedRows),
                            total_rows)
        /\ (RepeatedRows = 0 => result.consistency = 10000)
        /\ (total_rows = 4 /\ RepeatedRows = 1 => result.consistency = 7500)

C5_Witness ==
    /\ Computed
    /\ total_rows = 4
    /\ combined_df.rows[2] = combined_df.rows[4]
    /\ RepeatedRows = 1
    /\ result.consistency = 7500

C5_WitnessRounded ==
    /\ Computed
    /\ total_rows = 3
    /\ RepeatedRows = 1
    /\ result.consistency = 6667

\* cells of the frame and those that hold a value
AllCells == (1..total_rows) \X combined_df.columns

NonNullCells == {x \in AllCells : combined_df.rows[x[1]][x[2]] # NaN}

\* C6 (as stated): completeness equals 100 * non-null cells / cells exactly.
C6_CompletenessExact ==
    (Computed /\ total_rows >= 1) =>
        result.completeness * Cardinality(AllCells) = 10000 * Cardinality(NonNullCells)

\* C6 (amended): completeness equals 100 * non-null cells / cells rounded to
\* two decimals; a frame without null cells and without repeated rows gives
\* completeness, consistency and overall_integrity 100.
C6_CompletenessRounded ==
    (Computed /\ total_rows >= 1) =>
        /\ IsRoundedPercent(result.completeness, 100 * Cardinality(NonNullCells),
                            Cardinality(AllCells))
        /\ (NonNullCells = AllCells /\ RepeatedRows = 0 =>
               /\ result.completeness = 10000
               /\ result.consistency = 10000
               /\ result.overall_integrity = 10000)

C6_Witness ==
    /\ Computed
    /\ combined_df.columns = {"a", "valid"}
    /\ total_rows = 3
    /\ Cardinality(NonNullCells) = 4
    /\ combined_df.rows[1]["a"] = NaN
    /\ combined_df.rows[1]["valid"] = NaN
    /\ result.completeness = 6667

C6_WitnessClean ==
    /\ Computed
    /\ total_rows = 3
    /\ NonNullCells = AllCells
    /\ RepeatedRows = 0
    /\ result.overall_integrity = 10000


\* the table of one uploaded file, as the claim describes it: the parsed
\* sheet of a .csv / .xlsx file, one content row per page of a .pdf file
TableOf(file) ==
    LET n == Len(file.filename)
    IN  IF n >= 4 /\ SubSeq(file.filename, n - 3, n) = <<".", "p", "d", "f">>
        THEN [columns |-> {"content"},
              rows |-> [k \in 1..Len(file.pages) |-> [c \in {"content"} |-> <<file.pages[k]>>]]]
        ELSE file.table

\* rows contributed by the ingestible files before position k
RECURSIVE RowsBefore(_, _)
RowsBefore(files, k) ==
    IF k <= 1 THEN 0
    ELSE RowsBefore(files, k - 1)
         + (IF HasKnownExtension(files[k - 1]) THEN Len(TableOf(files[k - 1]).rows) ELSE 0)

\* C7: the combined frame is the concatenation, in upload order, of the
\* tables of the files named .csv, .xlsx or .pdf; other files add nothing and
\* raise nothing; no row is dropped; the columns are the union of the files'
\* columns and a row is null in every column its own file lacks.
C7_ConcatenationInUploadOrder ==
    (status = Success) =>
        LET files == contents.files
            kept == {k \in 1..Len(files) : HasKnownExtension(files[k])}
        IN  /\ total_rows = RowsBefore(files, Len(files) + 1)
            /\ combined_df.columns = UNION {TableOf(files[k]).columns : k \in kept}
            /\ \A k \in kept :
                 \A r \in 1..Len(TableOf(files[k]).rows) :
                   \A c \in combined_df.columns :
                     combined_df.rows[RowsBefore(files, k) + r][c] =
                        IF c \in TableOf(files[k]).columns
                        THEN TableOf(files[k]).rows[r][c]
                        ELSE NaN

C7_Witness ==
    /\ status = Success
    /\ contents.files = <<csv_ab, xlsx_bc>>
    /\ combined_df.columns = {"a", "b", "c"}
    /\ total_rows = 3
    /\ combined_df.rows[1]["c"] = NaN
    /\ combined_df.rows[2]["c"] = NaN
    /\ combined_df.rows[3]["a"] = NaN
    /\ combined_df.rows[3]["c"] = Cell(2)

C7_WitnessSkipped ==
    /\ status = Success
    /\ contents.files = <<txt_file, csv_ab>>
    /\ total_rows = 2

\* the callback has run at least once
Invoked == status # "" \/ raised

\* an ingestible file whose payload the parsing library rejects
ParsingFails ==
    \E i \in 1..Len(contents.files) :
        HasKnownExtension(contents.files[i]) /\ ~contents.files[i].parses

\* C8 (as stated): the status is the upload prompt whenever no files are
\* present (contents is None, the file list is empty, or no file is
\* ingestible), it is the success message exactly after a cycle that
\* ingested the files and computed metrics, and it is never anything else.
NoFilesPresent ==
    \/ contents.none
    \/ \A i \in 1..Len(contents.files) : ~HasKnownExtension(contents.files[i])

C8_StatusAsClaimed ==
    (Invoked /\ ~raised) =>
        /\ status \in {UploadPrompt, Success}
        /\ NoFilesPresent => status = UploadPrompt
        /\ status = Success <=> (~NoFilesPresent /\ Computed)

\* C8 (amended): the status is the upload prompt exactly when contents is
\* None; every invocation with a contents list (also an empty list, also one
\* without an ingestible file) that meets no parsing failure returns the
\* success message with metrics computed; a parsing failure returns nothing;
\* no other status is returned.
C8_StatusByContents ==
    Invoked =>
        /\ raised <=> (~contents.none /\ ParsingFails)
        /\ raised <=> status = ""
        /\ ~raised => status \in {UploadPrompt, Success}
        /\ status = UploadPrompt <=> contents.none
        /\ status = Success <=> (~contents.none /\ ~ParsingFails)
        /\ status = Success <=> Computed

C8_Witness ==
    /\ ~contents.none
    /\ Len(contents.files) = 1
    /\ NoFilesPresent
    /\ status = Success
    /\ Computed

C8_WitnessEmptyList ==
    /\ contents = Uploaded(<<>>)
    /\ status = Success

\* C9: the metrics and status of an invocation depend only on its own
\* contents and filenames: an invocation given the inputs of an earlier one
\* returns what the earlier one returned, whatever was uploaded in between,
\* and holds no frame of an earlier upload.
C9_SameInputsSameResults ==
    /\ (earlier.seen /\ earlier.contents = contents) =>
           /\ metrics = earlier.metrics
           /\ status = earlier.status
           /\ raised = earlier.raised
    /\ Len(all_data) <= Len(contents.files)

C9_Witness ==
    /\ earlier.seen
    /\ earlier.again
    /\ earlier.others
    /\ earlier.contents = contents
    /\ contents.files = <<csv_ab, xlsx_valid>>
    /\ Len(all_data) = 2
    /\ metrics = earlier.metrics
    /\ status = Success

\* C10: every result is in range: the three percentages lie in [0, 100] and
\* valid_records and invalid_records lie in [0, total_rows], also when the
\* valid column holds values other than 0 and 1.
C10_ResultInRange ==
    Computed =>
        /\ result.completeness \in 0..10000
        /\ result.consistency \in 0..10000
        /\ result.overall_integrity \in 0..10000
        /\ result.valid_records \in 0..total_rows
        /\ result.invalid_records \in 0..total_rows

====
